---- MODULE Spec2Model ----
(***************************************************************************)
(* Model of m_cdp_to_csv.py: script_main, the batch device runner.  It     *)
(* loads a device inventory, optionally negotiates a jump host, and for    *)
(* each device connects (directly or through the jump host), runs          *)
(* per_device_work, tears the connection down and logs failures.           *)
(*                                                                         *)
(* The program is sequential; pc is the position inside script_main.  The  *)
(* Session, the settings store, the operator and the inventory loader are  *)
(* collaborators: their results are inputs (chosen in Init or with \E),    *)
(* the effect of the Session's methods on the connection follows spec.md.  *)
(***************************************************************************)
EXTENDS Integers, Sequences, FiniteSets, TLC

(* ------------------------------ bounds --------------------------------- *)

\* longest inventory explored
MaxDevices == 2

(* ------------------------------ strings -------------------------------- *)

\* A protocol string is a sequence of one-character strings, so that
\* str.lower() and the substring test are computed, not assumed.
UpperChars == <<"A", "B", "C", "D", "E", "F", "G", "H", "I", "J", "K", "L", "M",
                "N", "O", "P", "Q", "R", "S", "T", "U", "V", "W", "X", "Y", "Z">>
LowerChars == <<"a", "b", "c", "d", "e", "f", "g", "h", "i", "j", "k", "l", "m",
                "n", "o", "p", "q", "r", "s", "t", "u", "v", "w", "x", "y", "z">>

LowerChar(c) ==
    IF \E k \in 1..Len(UpperChars) : UpperChars[k] = c
    THEN LowerChars[CHOOSE k \in 1..Len(UpperChars) : UpperChars[k] = c]
    ELSE c

\* protocol.lower()
Lower(s) == [k \in 1..Len(s) |-> LowerChar(s[k])]

\* sub in s
Contains(sub, s) ==
    \E k \in 0..(Len(s) - Len(sub)) :
        \A j \in 1..Len(sub) : s[k + j] = sub[j]

StrSsh    == <<"s", "s", "h">>
StrTelnet == <<"t", "e", "l", "n", "e", "t">>

\* the test of line 96
IsSshProtocol(protocol) == Contains(StrSsh, Lower(protocol))
\* the test of line 110
IsTelnetProtocol(protocol) == Lower(protocol) = StrTelnet

(* ------------------------------ inputs --------------------------------- *)

\* device records the inventory loader can deliver
Devices ==
    { [hostname |-> "hostA", protocol |-> <<"S", "S", "H", "2">>,
       username |-> "admin", password |-> "pwA", enable |-> "enA"],
      [hostname |-> "hostB", protocol |-> <<"T", "e", "l", "n", "e", "t">>,
       username |-> "oper", password |-> "pwB", enable |-> "enB"],
      [hostname |-> "hostC", protocol |-> <<"s", "e", "r", "i", "a", "l">>,
       username |-> "oper", password |-> "pwC", enable |-> "enC"] }

RECURSIVE SeqsUpTo(_, _)
SeqsUpTo(S, n) ==
    IF n = 0 THEN {<<>>}
    ELSE LET shorter == SeqsUpTo(S, n - 1)
         IN  shorter \cup {Append(q, d) : q \in {r \in shorter : Len(r) = n - 1}, d \in S}

\* what import_device_list can return: None, or a (possibly empty) list
NoneList == [none |-> TRUE, rows |-> <<>>]
ListOf(rows) == [none |-> FALSE, rows |-> rows]
Inventories == {NoneList} \cup {ListOf(r) : r \in SeqsUpTo(Devices, MaxDevices)}
ShortInventories == {NoneList, ListOf(<<>>)} \cup {ListOf(<<d>>) : d \in Devices}

\* messages carried by ConnectError / InteractionError
Msgs == {"timed out", "denied"}

\* what the operator can type into a prompt window
Answers == {"op1", "op2"}
PromptKinds == {"host", "user", "password", "ending"}

\* the settings store, section Global
SettingKeys == {"use_jumpbox", "jumpbox_host", "jumpbox_user", "jumpbox_prompt_end", "debug_mode"}
JumpKeys == {"jumpbox_host", "jumpbox_user", "jumpbox_prompt_end"}
Unset == "<unset>"

\* a line already in the failure log from an earlier run
OldLine == <<"Connect to ", "hostZ", " failed: ", "earlier run", "\n">>

(* ------------------------------ state ---------------------------------- *)

VARIABLES
    pc,             \* position in script_main
    session,        \* the Session: [jump |-> jump-host leg up, dev |-> device leg]
    inventory,      \* what import_device_list will return
    operator,       \* what the operator answers to each prompt
    settings,       \* the persisted settings store
    log,            \* the failure log file: [exists, lines]
    device_list,    \* local device_list
    use_jumpbox,    \* local use_jumpbox
    jumpbox,        \* local jumpbox
    j_username,     \* local j_username
    j_password,     \* local j_password
    j_ending,       \* local j_ending
    jump_connected, \* local jump_connected
    idx,            \* position of the for loop in device_list (0 before the loop)
    branch,         \* which try block the iteration is in
    exc,            \* the exception being propagated to the except clause
    raised,         \* exception that left script_main
    calls,          \* history: Session / task calls made, in order
    prompts,        \* history: prompt windows shown, in order
    reads,          \* history: settings keys read, in order
    writes,         \* history: settings updates, in order
    loaded,         \* history: import_device_list was called
    logOwner,       \* history: for each line this run appended, the iteration that wrote it
    initial         \* history: the session, settings store and log when the script started

vars == <<pc, session, inventory, operator, settings, log, device_list, use_jumpbox,
          jumpbox, j_username, j_password, j_ending, jump_connected, idx, branch,
          exc, raised, calls, prompts, reads, writes, loaded, logOwner, initial>>

env == <<inventory, operator, initial>>
jumpLocals == <<jumpbox, j_username, j_password, j_ending>>

(* ------------------------------ Session -------------------------------- *)

\* device leg: 0 = none, k >= 1 = device of iteration k, -1 = the tab was
\* connected before the script started
NoDev == 0
PreConnected == -1
Disconnected == [jump |-> FALSE, dev |-> NoDev]

\* session.is_connected()
IsConnected(s) == s.jump \/ s.dev # NoDev

NoExc == [kind |-> "none", msg |-> ""]
ConnectError(m) == [kind |-> "ConnectError", msg |-> m]
InteractionError(m) == [kind |-> "InteractionError", msg |-> m]

\* outcomes of a call that establishes a connection
ConnectOutcomes == {NoExc} \cup {ConnectError(m) : m \in Msgs} \cup {InteractionError(m) : m \in Msgs}
\* outcomes of a call made on an established connection
InteractOutcomes == {NoExc} \cup {InteractionError(m) : m \in Msgs}

\* session.connect / ssh_via_jump / telnet_via_jump to the device of iteration k:
\* a connect failure leaves the transport as it was, an interaction failure
\* happens after the transport came up
AfterDeviceConnect(s, k, out) ==
    IF out.kind = "ConnectError" THEN s ELSE [s EXCEPT !.dev = k]

\* session.connect_ssh to the jump host
AfterJumpConnect(s, out) ==
    IF out.kind = "ConnectError" THEN s ELSE [s EXCEPT !.jump = TRUE]

\* session.disconnect_via_jump(): leaves the proxied hop, keeps the jump leg
AfterDisconnectViaJump(s, out) ==
    IF out.kind = "none" THEN [s EXCEPT !.dev = NoDev] ELSE s

\* session.disconnect(): closes everything
AfterDisconnect(s) == Disconnected

\* the argument of a call the properties look at, as a sequence of strings:
\* protocol=protocol of session.connect (line 126), enable of per_device_work
\* (lines 102, 116, 127)
CallArg(op, k) ==
    CASE op = "connect" -> device_list.rows[k].protocol
      [] op = "per_device_work" -> <<device_list.rows[k].enable>>
      [] OTHER -> <<>>

Call(op, k, out) ==
    [op |-> op, dev |-> k, res |-> out.kind, msg |-> out.msg, arg |-> CallArg(op, k)]

(* ------------------------------ helpers -------------------------------- *)

\* Python truthiness of a settings value / prompt answer
Falsy(v) == v = ""

\* settings.getboolean
GetBoolean(v) == v = "True"

\* "Connect to {0} failed: {1}\n".format(hostname, msg)
ConnectFailedLine(hostname, msg) == <<"Connect to ", hostname, " failed: ", msg, "\n">>
\* "Failure on {0}: {1}\n".format(hostname, msg)
FailureOnLine(hostname, msg) == <<"Failure on ", hostname, ": ", msg, "\n">>

\* faulty variant: the log is opened with mode 'w', which truncates it
AppendToLog_Truncate(l, line) == [exists |-> TRUE, lines |-> <<line>>]

\* with open(failed_log, 'a') as logfile: logfile.write(line)
AppendToLog(l, line) == [exists |-> TRUE, lines |-> Append(l.lines, line)]

\* the device of the current iteration
device == device_list.rows[idx]

(* ------------------------------ Init ----------------------------------- *)

PersistedHost == "jb.example.net"
PersistedUser == "jumper"
PersistedEnding == "$"

SettingsWith(use, host, user, ending) ==
    [k \in SettingKeys |->
        CASE k = "use_jumpbox" -> use
          [] k = "jumpbox_host" -> host
          [] k = "jumpbox_user" -> user
          [] k = "jumpbox_prompt_end" -> ending
          [] OTHER -> "False"]

\* every combination of persisted / missing jump-host values
AllSettings ==
    {SettingsWith(use, host, user, ending) :
        use \in {"True", "False"}, host \in {"", PersistedHost},
        user \in {"", PersistedUser}, ending \in {"", PersistedEnding}}

\* jump-host values either all persisted or all missing
PlainSettings ==
    {SettingsWith(use, "", "", "") : use \in {"True", "False"}}
    \cup {SettingsWith(use, PersistedHost, PersistedUser, PersistedEnding) : use \in {"True", "False"}}

PlainOperator ==
    [k \in PromptKinds |-> IF k \in {"host", "ending"} THEN "op1" ELSE "op2"]

NoLog == [exists |-> FALSE, lines |-> <<>>]
InitialLogs == {NoLog, [exists |-> TRUE, lines |-> <<OldLine>>]}
InitialSessions == {Disconnected, [jump |-> FALSE, dev |-> PreConnected]}

InitLocals ==
    /\ pc = "start"
    /\ device_list = NoneList
    /\ use_jumpbox = FALSE
    /\ jumpbox = Unset
    /\ j_username = Unset
    /\ j_password = Unset
    /\ j_ending = Unset
    /\ jump_connected = FALSE
    /\ idx = 0
    /\ branch = "none"
    /\ exc = NoExc
    /\ raised = "none"
    /\ calls = <<>>
    /\ prompts = <<>>
    /\ reads = <<>>
    /\ writes = <<>>
    /\ loaded = FALSE
    /\ logOwner = <<>>

\* runs over every inventory up to MaxDevices
Init ==
    /\ InitLocals
    /\ session \in InitialSessions
    /\ inventory \in Inventories
    /\ operator = PlainOperator
    /\ settings \in PlainSettings
    /\ log \in InitialLogs
    /\ initial = [session |-> session, settings |-> settings, log |-> log]

\* runs over every settings store and every operator, inventories of at most one device
InitNeg ==
    /\ InitLocals
    /\ session \in InitialSessions
    /\ inventory \in ShortInventories
    /\ operator \in [PromptKinds -> Answers]
    /\ settings \in AllSettings
    /\ log \in InitialLogs
    /\ initial = [session |-> session, settings |-> settings, log |-> log]

(* ------------------------------ script_main ---------------------------- *)

\* faulty variant: the connected-tab check is missing
Start_NoCheck ==
    /\ pc = "start"
    /\ pc' = "load"
    /\ UNCHANGED <<session, env, settings, log, device_list, use_jumpbox, jumpLocals,
                   jump_connected, idx, branch, exc, raised, calls, prompts, reads, writes,
                   loaded, logOwner>>

\* lines 42-48: refuse to run in a connected tab
Start ==
    /\ pc = "start"
    /\ IF IsConnected(session)
       THEN /\ raised' = "ScriptError"
            /\ pc' = "aborted"
       ELSE /\ raised' = raised
            /\ pc' = "load"
    /\ UNCHANGED <<session, env, settings, log, device_list, use_jumpbox, jumpLocals,
                   jump_connected, idx, branch, exc, calls, prompts, reads, writes,
                   loaded, logOwner>>

\* faulty variant: no early return on an empty device list
LoadInventory_NoReturn ==
    /\ pc = "load"
    /\ device_list' = inventory
    /\ loaded' = TRUE
    /\ pc' = "settings"
    /\ UNCHANGED <<session, env, settings, log, use_jumpbox, jumpLocals, jump_connected,
                   idx, branch, exc, raised, calls, prompts, reads, writes, logOwner>>

\* lines 50-53: load the device list, return when there is none
LoadInventory ==
    /\ pc = "load"
    /\ device_list' = inventory
    /\ loaded' = TRUE
    /\ pc' = IF inventory.none \/ inventory.rows = <<>> THEN "done" ELSE "settings"
    /\ UNCHANGED <<session, env, settings, log, use_jumpbox, jumpLocals, jump_connected,
                   idx, branch, exc, raised, calls, prompts, reads, writes, logOwner>>

\* lines 57-59
ReadUseJumpbox ==
    /\ pc = "settings"
    /\ use_jumpbox' = GetBoolean(settings["use_jumpbox"])
    /\ reads' = Append(reads, "use_jumpbox")
    /\ pc' = IF use_jumpbox' THEN "read_jump" ELSE "loop_init"
    /\ UNCHANGED <<session, env, settings, log, device_list, jumpLocals, jump_connected,
                   idx, branch, exc, raised, calls, prompts, writes, loaded, logOwner>>

\* lines 60-62
ReadJumpSettings ==
    /\ pc = "read_jump"
    /\ jumpbox' = settings["jumpbox_host"]
    /\ j_username' = settings["jumpbox_user"]
    /\ j_ending' = settings["jumpbox_prompt_end"]
    /\ reads' = reads \o <<"jumpbox_host", "jumpbox_user", "jumpbox_prompt_end">>
    /\ pc' = "prompt_host"
    /\ UNCHANGED <<session, env, settings, log, device_list, use_jumpbox, j_password,
                   jump_connected, idx, branch, exc, raised, calls, prompts, writes,
                   loaded, logOwner>>

Prompt(kind, hidden) == [kind |-> kind, hidden |-> hidden, answer |-> operator[kind]]
Update(key, value) == [key |-> key, value |-> value]

\* lines 64-66
PromptHost ==
    /\ pc = "prompt_host"
    /\ IF Falsy(jumpbox)
       THEN /\ prompts' = Append(prompts, Prompt("host", FALSE))
            /\ jumpbox' = operator["host"]
            /\ settings' = [settings EXCEPT !["jumpbox_host"] = jumpbox']
            /\ writes' = Append(writes, Update("jumpbox_host", jumpbox'))
       ELSE UNCHANGED <<prompts, jumpbox, settings, writes>>
    /\ pc' = "prompt_user"
    /\ UNCHANGED <<session, env, log, device_list, use_jumpbox, j_username, j_password,
                   j_ending, jump_connected, idx, branch, exc, raised, calls, reads,
                   loaded, logOwner>>

\* faulty variant: the user name is written back whether or not it was prompted for
PromptUser_AlwaysUpdate ==
    /\ pc = "prompt_user"
    /\ IF Falsy(j_username)
       THEN /\ prompts' = Append(prompts, [kind |-> "user", hidden |-> FALSE, answer |-> operator["user"]])
            /\ j_username' = operator["user"]
       ELSE UNCHANGED <<prompts, j_username>>
    /\ settings' = [settings EXCEPT !["jumpbox_user"] = j_username']
    /\ writes' = Append(writes, [key |-> "jumpbox_user", value |-> j_username'])
    /\ pc' = "prompt_password"
    /\ UNCHANGED <<session, env, log, device_list, use_jumpbox, jumpbox, j_password,
                   j_ending, jump_connected, idx, branch, exc, raised, calls, reads,
                   loaded, logOwner>>

\* lines 68-70
PromptUser ==
    /\ pc = "prompt_user"
    /\ IF Falsy(j_username)
       THEN /\ prompts' = Append(prompts, Prompt("user", FALSE))
            /\ j_username' = operator["user"]
            /\ settings' = [settings EXCEPT !["jumpbox_user"] = j_username']
            /\ writes' = Append(writes, Update("jumpbox_user", j_username'))
       ELSE UNCHANGED <<prompts, j_username, settings, writes>>
    /\ pc' = "prompt_password"
    /\ UNCHANGED <<session, env, log, device_list, use_jumpbox, jumpbox, j_password,
                   j_ending, jump_connected, idx, branch, exc, raised, calls, reads,
                   loaded, logOwner>>

\* faulty variant: the password is asked only together with the user name
PromptPassword_OnlyWithUser ==
    /\ pc = "prompt_password"
    /\ IF Falsy(initial.settings["jumpbox_user"])
       THEN /\ prompts' = Append(prompts, [kind |-> "password", hidden |-> TRUE,
                                           answer |-> operator["password"]])
            /\ j_password' = operator["password"]
       ELSE UNCHANGED <<prompts, j_password>>
    /\ pc' = "prompt_ending"
    /\ UNCHANGED <<session, env, settings, log, device_list, use_jumpbox, jumpbox,
                   j_username, j_ending, jump_connected, idx, branch, exc, raised, calls,
                   reads, writes, loaded, logOwner>>

\* line 72
PromptPassword ==
    /\ pc = "prompt_password"
    /\ prompts' = Append(prompts, Prompt("password", TRUE))
    /\ j_password' = operator["password"]
    /\ pc' = "prompt_ending"
    /\ UNCHANGED <<session, env, settings, log, device_list, use_jumpbox, jumpbox,
                   j_username, j_ending, jump_connected, idx, branch, exc, raised, calls,
                   reads, writes, loaded, logOwner>>

\* lines 74-76
PromptEnding ==
    /\ pc = "prompt_ending"
    /\ IF Falsy(j_ending)
       THEN /\ prompts' = Append(prompts, Prompt("ending", FALSE))
            /\ j_ending' = operator["ending"]
            /\ settings' = [settings EXCEPT !["jumpbox_prompt_end"] = j_ending']
            /\ writes' = Append(writes, Update("jumpbox_prompt_end", j_ending'))
       ELSE UNCHANGED <<prompts, j_ending, settings, writes>>
    /\ pc' = "loop_init"
    /\ UNCHANGED <<session, env, log, device_list, use_jumpbox, jumpbox, j_username,
                   j_password, jump_connected, idx, branch, exc, raised, calls, reads,
                   loaded, logOwner>>

\* lines 83-85: jump_connected = False; the log's file name is computed, the
\* file itself is not touched
LoopInit ==
    /\ pc = "loop_init"
    /\ jump_connected' = FALSE
    /\ pc' = "for"
    /\ UNCHANGED <<session, env, settings, log, device_list, use_jumpbox, jumpLocals,
                   idx, branch, exc, raised, calls, prompts, reads, writes, loaded,
                   logOwner>>

\* faulty variant: the jump blocks are chosen without testing use_jumpbox
Dispatch_IgnoresMode(d) ==
    IF IsSshProtocol(d.protocol) THEN "ssh"
    ELSE IF IsTelnetProtocol(d.protocol) THEN "telnet"
    ELSE "direct"

\* lines 94, 96, 110, 123: which block handles a device
Dispatch(d) ==
    IF use_jumpbox
    THEN IF IsSshProtocol(d.protocol) THEN "ssh"
         ELSE IF IsTelnetProtocol(d.protocol) THEN "telnet"
         ELSE "none"
    ELSE "direct"

\* lines 87-96, 110, 123-125: take the next device and enter its block
ForNext ==
    /\ pc = "for"
    /\ IF idx < Len(device_list.rows)
       THEN /\ idx' = idx + 1
            /\ branch' = Dispatch(device_list.rows[idx'])
            /\ pc' = CASE branch' \in {"ssh", "telnet"} -> "try_jump"
                       [] branch' = "direct" -> "try_direct"
                       [] OTHER -> "for"
       ELSE /\ pc' = "final"
            /\ UNCHANGED <<idx, branch>>
    /\ UNCHANGED <<session, env, settings, log, device_list, use_jumpbox, jumpLocals,
                   jump_connected, exc, raised, calls, prompts, reads, writes, loaded,
                   logOwner>>

\* lines 98-100 and 112-114: connect to the jump host unless already connected
JumpConnect ==
    /\ pc = "try_jump"
    /\ IF ~jump_connected
       THEN \E out \in ConnectOutcomes :
              /\ session' = AfterJumpConnect(session, out)
              /\ calls' = Append(calls, Call("connect_ssh", idx, out))
              /\ IF out = NoExc
                 THEN /\ jump_connected' = TRUE
                      /\ pc' = "hop"
                      /\ exc' = exc
                 ELSE /\ exc' = out
                      /\ pc' = "except_jump"
                      /\ jump_connected' = jump_connected
       ELSE /\ pc' = "hop"
            /\ UNCHANGED <<session, calls, jump_connected, exc>>
    /\ UNCHANGED <<env, settings, log, device_list, use_jumpbox, jumpLocals, idx, branch,
                   raised, prompts, reads, writes, loaded, logOwner>>

\* faulty variant: the task is run even when the proxied hop raised
Hop_TaskAnyway ==
    /\ pc = "hop"
    /\ \E out \in ConnectOutcomes :
          /\ session' = AfterDeviceConnect(session, idx, out)
          /\ calls' = Append(calls, Call(IF branch = "ssh" THEN "ssh_via_jump"
                                         ELSE "telnet_via_jump", idx, out))
          /\ exc' = out
          /\ pc' = "task"
    /\ UNCHANGED <<env, settings, log, device_list, use_jumpbox, jumpLocals, jump_connected,
                   idx, branch, raised, prompts, reads, writes, loaded, logOwner>>

\* lines 101 and 115: the proxied hop to the device
Hop ==
    /\ pc = "hop"
    /\ \E out \in ConnectOutcomes :
          /\ session' = AfterDeviceConnect(session, idx, out)
          /\ calls' = Append(calls, Call(IF branch = "ssh" THEN "ssh_via_jump"
                                         ELSE "telnet_via_jump", idx, out))
          /\ exc' = out
          /\ pc' = IF out = NoExc THEN "task" ELSE "except_jump"
    /\ UNCHANGED <<env, settings, log, device_list, use_jumpbox, jumpLocals, jump_connected,
                   idx, branch, raised, prompts, reads, writes, loaded, logOwner>>

\* line 126: direct connection with the device's declared protocol
DirectConnect ==
    /\ pc = "try_direct"
    /\ \E out \in ConnectOutcomes :
          /\ session' = AfterDeviceConnect(session, idx, out)
          /\ calls' = Append(calls, Call("connect", idx, out))
          /\ exc' = out
          /\ pc' = IF out = NoExc THEN "task" ELSE "except_direct"
    /\ UNCHANGED <<env, settings, log, device_list, use_jumpbox, jumpLocals, jump_connected,
                   idx, branch, raised, prompts, reads, writes, loaded, logOwner>>

\* lines 102, 116, 127 and 143-152: per_device_work on the connected session
Task ==
    /\ pc = "task"
    /\ \E out \in InteractOutcomes :
          /\ calls' = Append(calls, Call("per_device_work", idx, out))
          /\ exc' = out
          /\ pc' = IF out = NoExc
                   THEN (IF branch = "direct" THEN "disconnect_direct" ELSE "disconnect_via_jump")
                   ELSE (IF branch = "direct" THEN "except_direct" ELSE "except_jump")
    /\ UNCHANGED <<session, env, settings, log, device_list, use_jumpbox, jumpLocals,
                   jump_connected, idx, branch, raised, prompts, reads, writes, loaded,
                   logOwner>>

\* lines 103 and 117: leave the proxied hop, keep the jump leg
DisconnectViaJump ==
    /\ pc = "disconnect_via_jump"
    /\ \E out \in InteractOutcomes :
          /\ session' = AfterDisconnectViaJump(session, out)
          /\ calls' = Append(calls, Call("disconnect_via_jump", idx, out))
          /\ exc' = out
          /\ pc' = IF out = NoExc THEN "for" ELSE "except_jump"
    /\ UNCHANGED <<env, settings, log, device_list, use_jumpbox, jumpLocals, jump_connected,
                   idx, branch, raised, prompts, reads, writes, loaded, logOwner>>

\* faulty variant: the except clause forgets to clear jump_connected
ExceptJump_KeepsFlag ==
    /\ pc = "except_jump"
    /\ log' = AppendToLog(log, ConnectFailedLine(device.hostname, exc.msg))
    /\ logOwner' = Append(logOwner, idx)
    /\ session' = AfterDisconnect(session)
    /\ calls' = Append(calls, Call("disconnect", idx, NoExc))
    /\ exc' = NoExc
    /\ pc' = "for"
    /\ UNCHANGED <<env, settings, device_list, use_jumpbox, jumpLocals, idx, branch,
                   raised, prompts, reads, writes, loaded, jump_connected>>

\* faulty variant: the except clause clears the flag without disconnecting
ExceptJump_NoDisconnect ==
    /\ pc = "except_jump"
    /\ log' = AppendToLog(log, ConnectFailedLine(device.hostname, exc.msg))
    /\ logOwner' = Append(logOwner, idx)
    /\ jump_connected' = FALSE
    /\ exc' = NoExc
    /\ pc' = "for"
    /\ UNCHANGED <<env, settings, device_list, use_jumpbox, jumpLocals, idx, branch,
                   raised, prompts, reads, writes, loaded, session, calls>>

\* lines 104-109 and 118-122: log, disconnect everything, forget the jump leg
ExceptJump ==
    /\ pc = "except_jump"
    /\ log' = AppendToLog(log, ConnectFailedLine(device.hostname, exc.msg))
    /\ logOwner' = Append(logOwner, idx)
    /\ session' = AfterDisconnect(session)
    /\ calls' = Append(calls, Call("disconnect", idx, NoExc))
    /\ jump_connected' = FALSE
    /\ exc' = NoExc
    /\ pc' = "for"
    /\ UNCHANGED <<env, settings, device_list, use_jumpbox, jumpLocals, idx, branch,
                   raised, prompts, reads, writes, loaded>>

\* line 128
DirectDisconnect ==
    /\ pc = "disconnect_direct"
    /\ session' = AfterDisconnect(session)
    /\ calls' = Append(calls, Call("disconnect", idx, NoExc))
    /\ pc' = "for"
    /\ UNCHANGED <<env, settings, log, device_list, use_jumpbox, jumpLocals, jump_connected,
                   idx, branch, exc, raised, prompts, reads, writes, loaded, logOwner>>

\* faulty variant: the except clause swallows the error without logging it
ExceptConnectError_NoWrite ==
    /\ pc = "except_direct"
    /\ exc.kind = "ConnectError"
    /\ exc' = NoExc
    /\ pc' = "for"
    /\ UNCHANGED <<session, env, settings, device_list, use_jumpbox, jumpLocals,
                   jump_connected, idx, branch, raised, calls, prompts, reads, writes,
                   loaded, log, logOwner>>

\* lines 129-131
ExceptConnectError ==
    /\ pc = "except_direct"
    /\ exc.kind = "ConnectError"
    /\ log' = AppendToLog(log, ConnectFailedLine(device.hostname, exc.msg))
    /\ logOwner' = Append(logOwner, idx)
    /\ exc' = NoExc
    /\ pc' = "for"
    /\ UNCHANGED <<session, env, settings, device_list, use_jumpbox, jumpLocals,
                   jump_connected, idx, branch, raised, calls, prompts, reads, writes,
                   loaded>>

\* lines 132-134
ExceptInteractionError ==
    /\ pc = "except_direct"
    /\ exc.kind = "InteractionError"
    /\ log' = AppendToLog(log, FailureOnLine(device.hostname, exc.msg))
    /\ logOwner' = Append(logOwner, idx)
    /\ exc' = NoExc
    /\ pc' = "for"
    /\ UNCHANGED <<session, env, settings, device_list, use_jumpbox, jumpLocals,
                   jump_connected, idx, branch, raised, calls, prompts, reads, writes,
                   loaded>>

\* lines 136-138: disconnect the jump host if still connected, then return
FinalTeardown ==
    /\ pc = "final"
    /\ IF jump_connected
       THEN /\ session' = AfterDisconnect(session)
            /\ calls' = Append(calls, Call("disconnect", 0, NoExc))
       ELSE UNCHANGED <<session, calls>>
    /\ pc' = "done"
    /\ UNCHANGED <<env, settings, log, device_list, use_jumpbox, jumpLocals, jump_connected,
                   idx, branch, exc, raised, prompts, reads, writes, loaded, logOwner>>

Next ==
    \/ Start
    \/ LoadInventory
    \/ ReadUseJumpbox
    \/ ReadJumpSettings
    \/ PromptHost
    \/ PromptUser
    \/ PromptPassword
    \/ PromptEnding
    \/ LoopInit
    \/ ForNext
    \/ JumpConnect
    \/ Hop
    \/ DirectConnect
    \/ Task
    \/ DisconnectViaJump
    \/ ExceptJump
    \/ DirectDisconnect
    \/ ExceptConnectError
    \/ ExceptInteractionError
    \/ FinalTeardown

Spec == Init /\ [][Next]_vars
SpecNeg == InitNeg /\ [][Next]_vars

TypeOK ==
    /\ pc \in {"start", "aborted", "load", "settings", "read_jump", "prompt_host",
               "prompt_user", "prompt_password", "prompt_ending", "loop_init", "for",
               "try_jump", "hop", "try_direct", "task", "disconnect_via_jump",
               "disconnect_direct", "except_jump", "except_direct", "final", "done"}
    /\ session.jump \in BOOLEAN
    /\ session.dev \in -1..Len(inventory.rows)
    /\ idx \in 0..Len(inventory.rows)
    /\ jump_connected \in BOOLEAN
    /\ use_jumpbox \in BOOLEAN

(* ------------------------------ properties ----------------------------- *)

Returned == pc = "done"
NumDevices == Len(device_list.rows)
JumpMode == GetBoolean(initial.settings["use_jumpbox"])

ConnectOps == {"connect", "connect_ssh", "ssh_via_jump", "telnet_via_jump"}
HopOps == {"ssh_via_jump", "telnet_via_jump"}
Failed(c) == c.res # "none"
CallsOf(k) == {p \in DOMAIN calls : calls[p].dev = k}

\* iteration k of the loop is over
IterationOver(k) == idx > k \/ (idx = k /\ pc \in {"for", "final", "done"})

\* the lines this run appended to the failure log, and those an iteration wrote
LinesBefore == Len(log.lines) - Len(logOwner)
RunLine(j) == log.lines[LinesBefore + j]
LinesOf(k) == {j \in DOMAIN logOwner : logOwner[j] = k}
Carries(line, text) == \E t \in DOMAIN line : line[t] = text

\* C1: when script_main returns, the Session is disconnected: neither a
\* device leg nor the jump-host leg is open, whatever the routing mode and
\* the mix of per-device outcomes.
C1_DisconnectedAtReturn == Returned => ~IsConnected(session)

\* C2: whenever a connection attempt for a device starts (session.connect,
\* ssh_via_jump, telnet_via_jump) no device leg is connected; in direct mode
\* the Session is then fully disconnected.
C2_NoDeviceLegAtConnect ==
    /\ pc \in {"try_direct", "hop"} => session.dev = NoDev
    /\ pc = "try_direct" => ~IsConnected(session)

\* the connection attempts made for device k: the call that reaches the
\* device, or the jump-host connect that failed on its behalf
AttemptsOf(k) ==
    {p \in CallsOf(k) : \/ calls[p].op \in {"connect"} \cup HopOps
                        \/ calls[p].op = "connect_ssh" /\ Failed(calls[p])}

\* C3: a ConnectError or InteractionError never aborts the batch: when the
\* run over a non-empty inventory is over, every device has been attempted
\* exactly once, in inventory order, and the final teardown was reached.
C3_EveryDeviceAttemptedOnce ==
    /\ (pc \in {"final", "done"} /\ NumDevices > 0) =>
          \A k \in 1..NumDevices : Cardinality(AttemptsOf(k)) = 1
    /\ \A p, q \in DOMAIN calls : (p < q /\ calls[q].dev # 0) => calls[p].dev <= calls[q].dev
    /\ raised \in {"none", "ScriptError"}
    /\ raised = "ScriptError" => ~loaded

\* the failures C4 is about: raised by a connection call or by the task
FailuresOf(k) ==
    {p \in CallsOf(k) : calls[p].op \in ConnectOps \cup {"per_device_work"} /\ Failed(calls[p])}

\* C4: every device whose connection attempt or task raised ConnectError or
\* InteractionError has, once its iteration is over, exactly one line in the
\* failure log, written by that iteration, carrying the device's hostname and
\* the exception's message unchanged.
C4_OneLinePerFailedDevice ==
    \A k \in 1..idx :
        \A p \in FailuresOf(k) :
            IterationOver(k) =>
                /\ Cardinality(LinesOf(k)) = 1
                /\ \A j \in LinesOf(k) :
                      /\ Carries(RunLine(j), device_list.rows[k].hostname)
                      /\ Carries(RunLine(j), calls[p].msg)

\* C4 witness: a finished run in jump mode and in direct mode alike has
\* failed devices; here: two failed devices, one of them failing in its task.
C4_Witness ==
    /\ Returned
    /\ Len(logOwner) >= 2
    /\ \E p \in DOMAIN calls : calls[p].op = "per_device_work" /\ Failed(calls[p])
    /\ \E p \in DOMAIN calls : calls[p].op \in ConnectOps /\ calls[p].res = "ConnectError"

\* a full disconnect made by an except clause (iteration >= 1), in jump mode
HandlerDisconnect(c) == c.op = "disconnect" /\ c.dev >= 1
JumpEstablished(c) == c.op = "connect_ssh" /\ ~Failed(c)
FailedIterations == {k \in 1..idx : \E p \in CallsOf(k) : Failed(calls[p])}
FirstCallOf(k) == CHOOSE p \in CallsOf(k) : \A q \in CallsOf(k) : p <= q

\* C5: in jump mode a caught failure for device D is followed by a full
\* disconnect that leaves the Session disconnected and jump_connected false;
\* D is not retried; the next device's attempt starts with connect_ssh, and no
\* proxied hop is made over a jump leg that predates a caught failure.
C5_JumpReconnectAfterFailure ==
    JumpMode =>
      /\ (calls # <<>> /\ HandlerDisconnect(calls[Len(calls)])) =>
            (session = Disconnected /\ ~jump_connected)
      /\ \A k \in FailedIterations :
            IterationOver(k) =>
               \E q \in CallsOf(k) :
                  HandlerDisconnect(calls[q]) /\ \A r \in CallsOf(k) : r <= q
      /\ \A p, q \in DOMAIN calls :
            (p < q /\ calls[p].dev = calls[q].dev /\ Failed(calls[p])) =>
                HandlerDisconnect(calls[q])
      /\ \A q \in DOMAIN calls :
            calls[q].op \in HopOps =>
               \E r \in 1..(q - 1) :
                  /\ JumpEstablished(calls[r])
                  /\ \A t \in (r + 1)..(q - 1) : ~HandlerDisconnect(calls[t])
      /\ \A k \in FailedIterations :
            CallsOf(k + 1) # {} => calls[FirstCallOf(k + 1)].op = "connect_ssh"

\* C5 witness: a device fails on an established jump leg, and the next device
\* reconnects the jump host and is reached through it.
C5_Witness ==
    /\ JumpMode
    /\ \E p, q, r \in DOMAIN calls :
          /\ p < q /\ q < r
          /\ calls[p].op \in HopOps \cup {"per_device_work"} /\ Failed(calls[p])
          /\ JumpEstablished(calls[q]) /\ calls[q].dev = calls[p].dev + 1
          /\ calls[r].op \in HopOps /\ calls[r].dev = calls[q].dev

\* C6: in jump mode a run over N >= 1 devices with no failure calls
\* connect_ssh exactly once, before the first proxied connection, leaves every
\* device with disconnect_via_jump, and fully disconnects exactly once, after
\* the loop.
C6_JumpLegEstablishedOnce ==
    (JumpMode /\ Returned /\ NumDevices >= 1 /\ \A p \in DOMAIN calls : ~Failed(calls[p])) =>
      /\ Cardinality({p \in DOMAIN calls : calls[p].op = "connect_ssh"}) = 1
      /\ calls[1].op = "connect_ssh"
      /\ \A k \in 1..NumDevices :
            \E p \in CallsOf(k) : calls[p].op = "disconnect_via_jump"
      /\ Cardinality({p \in DOMAIN calls : calls[p].op = "disconnect"}) = 1
      /\ calls[Len(calls)] = Call("disconnect", 0, NoExc)

TaskCompleted(k) == \E p \in CallsOf(k) : calls[p].op = "per_device_work" /\ ~Failed(calls[p])

\* C7: at the end of a run every device whose per-device task did not run to
\* completion has a line in the failure log carrying its hostname.
C7_NoSilentSkip ==
    (Returned /\ loaded) =>
        \A k \in 1..NumDevices :
            ~TaskCompleted(k) =>
                \E j \in LinesOf(k) : Carries(RunLine(j), device_list.rows[k].hostname)

Untouched ==
    /\ ~loaded
    /\ reads = <<>> /\ writes = <<>> /\ prompts = <<>> /\ calls = <<>>
    /\ settings = initial.settings
    /\ log = initial.log /\ logOwner = <<>>
    /\ session = initial.session

EmptyInventory == inventory.none \/ inventory.rows = <<>>

\* C9: with an empty or unavailable inventory script_main returns normally
\* right after loading it: no connection attempt, no prompt, no setting
\* written, no failure log created or appended to.
C9_EmptyInventoryNoOp ==
    (EmptyInventory /\ loaded) =>
        /\ Returned /\ raised = "none"
        /\ calls = <<>> /\ prompts = <<>> /\ writes = <<>>
        /\ settings = initial.settings
        /\ log = initial.log /\ logOwner = <<>>
        /\ session = initial.session

\* C9 witness: an empty inventory with jump mode enabled and nothing persisted,
\* where negotiation would otherwise prompt.
C9_Witness ==
    /\ Returned /\ loaded /\ EmptyInventory
    /\ JumpMode /\ Falsy(initial.settings["jumpbox_host"])
    /\ ~initial.log.exists

KindOfKey(key) ==
    CASE key = "jumpbox_host" -> "host"
      [] key = "jumpbox_user" -> "user"
      [] key = "jumpbox_prompt_end" -> "ending"
      [] OTHER -> "none"
WritesTo(key) == {p \in DOMAIN writes : writes[p].key = key}

\* C10: the only settings written are jumpbox_host, jumpbox_user and
\* jumpbox_prompt_end, each at most once, only when its persisted value was
\* missing, with the answer the operator gave to that key's prompt; all other
\* settings keep their value; the password prompt's answer is written under
\* no key; nothing is written when jump mode is disabled.
C10_OnlyMissingJumpSettingsWritten ==
    /\ \A p \in DOMAIN writes :
          /\ writes[p].key \in JumpKeys
          /\ Falsy(initial.settings[writes[p].key])
          /\ writes[p].value = operator[KindOfKey(writes[p].key)]
          /\ \E q \in DOMAIN prompts :
                prompts[q].kind = KindOfKey(writes[p].key) /\ prompts[q].answer = writes[p].value
    /\ \A k \in SettingKeys :
          /\ Cardinality(WritesTo(k)) <= 1
          /\ settings[k] = IF WritesTo(k) = {} THEN initial.settings[k]
                           ELSE writes[CHOOSE p \in WritesTo(k) : TRUE].value
    /\ ~JumpMode => writes = <<>>
    /\ pc \in {"loop_init", "for", "final", "done"} /\ JumpMode /\ ~EmptyInventory =>
          \A k \in JumpKeys : Falsy(initial.settings[k]) => WritesTo(k) # {}

\* C10 witness: the operator typed a password that differs from the user name
\* and the user name was missing; the run is past negotiation.
C10_Witness ==
    /\ Returned /\ JumpMode
    /\ \E q \in DOMAIN prompts : prompts[q].kind = "password" /\ prompts[q].hidden
    /\ operator["password"] # operator["user"]
    /\ WritesTo("jumpbox_user") # {}
    /\ ~Falsy(initial.settings["jumpbox_host"])

\* C11: the wording of a log line tells the failure kind: a ConnectError on
\* device H is logged as 'Connect to H failed: <message>', an InteractionError
\* on device H as 'Failure on H: <message>', in direct and in jump mode.
C11_WordingTellsFailureKind ==
    \A k \in 1..idx :
        \A p \in CallsOf(k) : \A j \in LinesOf(k) :
            /\ calls[p].res = "ConnectError" =>
                  RunLine(j) = ConnectFailedLine(device_list.rows[k].hostname, calls[p].msg)
            /\ calls[p].res = "InteractionError" =>
                  RunLine(j) = FailureOnLine(device_list.rows[k].hostname, calls[p].msg)

TaskCalls(k) == {p \in CallsOf(k) : calls[p].op = "per_device_work"}
DeviceOps == {"connect"} \cup HopOps
EstablishedFor(k) == \E p \in CallsOf(k) : calls[p].op \in DeviceOps /\ ~Failed(calls[p])
ConnectFailedFor(k) == \E p \in CallsOf(k) : calls[p].op \in ConnectOps /\ Failed(calls[p])

\* C12: per_device_work is invoked for device D only directly after the
\* connection call for D returned without raising, with D's enable secret, at
\* most once, and exactly once when D's iteration is over and its connection
\* was established; never when the connection attempt for D or the jump-host
\* connect before it raised.
C12_TaskOnlyOnOwnConnection ==
    \A k \in 1..idx :
        /\ Cardinality(TaskCalls(k)) <= 1
        /\ \A p \in TaskCalls(k) :
              /\ p > 1
              /\ calls[p - 1].dev = k
              /\ calls[p - 1].op \in DeviceOps
              /\ ~Failed(calls[p - 1])
              /\ calls[p].arg = <<device_list.rows[k].enable>>
        /\ (IterationOver(k) /\ EstablishedFor(k)) => Cardinality(TaskCalls(k)) = 1
        /\ ConnectFailedFor(k) => TaskCalls(k) = {}

\* C12 witness: a finished jump-mode run in which the first device's proxied
\* connection failed and the second device's task ran.
C12_Witness ==
    /\ Returned /\ JumpMode /\ NumDevices = 2
    /\ \E p \in CallsOf(1) : calls[p].op \in HopOps /\ Failed(calls[p])
    /\ TaskCalls(1) = {}
    /\ TaskCalls(2) # {}

HopCalls(k) == {p \in CallsOf(k) : calls[p].op \in HopOps}
JumpConnectFailedFor(k) == \E p \in CallsOf(k) : calls[p].op = "connect_ssh" /\ Failed(calls[p])

\* C13: in jump mode a device is reached with ssh_via_jump exactly when its
\* lower-cased protocol contains 'ssh' and with telnet_via_jump exactly when it
\* equals 'telnet', and every device of the inventory is reached with one of
\* the two (unless the jump-host connect made for it failed); in direct mode
\* session.connect gets the device's protocol unchanged.
C13_TransportFromProtocol ==
    \A k \in 1..idx :
        /\ \A p \in HopCalls(k) :
              /\ JumpMode
              /\ calls[p].op = "ssh_via_jump" <=> IsSshProtocol(device_list.rows[k].protocol)
              /\ calls[p].op = "telnet_via_jump" <=> IsTelnetProtocol(device_list.rows[k].protocol)
        /\ (JumpMode /\ IterationOver(k)) => (HopCalls(k) # {} \/ JumpConnectFailedFor(k))
        /\ \A p \in CallsOf(k) :
              calls[p].op = "connect" =>
                  (~JumpMode /\ calls[p].arg = device_list.rows[k].protocol)
        /\ (~JumpMode /\ IterationOver(k)) => \E p \in CallsOf(k) : calls[p].op = "connect"

PromptsOf(kind) == {q \in DOMAIN prompts : prompts[q].kind = kind}
\* the run is past the jump-box section (line 78) with devices to visit
PastNegotiation ==
    /\ loaded /\ ~EmptyInventory
    /\ pc \notin {"load", "settings", "read_jump", "prompt_host", "prompt_user",
                  "prompt_password", "prompt_ending"}

\* C14: jump-host negotiation happens once per run, before the device loop:
\* with jump mode enabled and a non-empty inventory the (masked) password
\* prompt is shown exactly once, also when everything else is persisted; the
\* host, user and prompt-terminator prompts are shown at most once, and only
\* (and then always) when the persisted value is missing; with jump mode
\* disabled no prompt is shown.
C14_NegotiationOncePerRun ==
    /\ ~JumpMode => prompts = <<>>
    /\ \A kind \in PromptKinds : Cardinality(PromptsOf(kind)) <= 1
    /\ \A key \in JumpKeys :
          PromptsOf(KindOfKey(key)) # {} => Falsy(initial.settings[key])
    /\ \A q \in DOMAIN prompts : prompts[q].hidden <=> prompts[q].kind = "password"
    /\ (JumpMode /\ PastNegotiation) =>
          /\ Cardinality(PromptsOf("password")) = 1
          /\ \A key \in JumpKeys :
                Falsy(initial.settings[key]) => PromptsOf(KindOfKey(key)) # {}

\* C14 witness: a finished jump-mode run over two devices with host, user and
\* prompt terminator persisted: only the password was asked, once.
C14_Witness ==
    /\ Returned /\ JumpMode /\ NumDevices = 2
    /\ \A key \in JumpKeys : ~Falsy(initial.settings[key])
    /\ Len(prompts) = 1 /\ prompts[1].kind = "password"
    /\ \E p \in CallsOf(2) : calls[p].op \in HopOps

\* C15: the failure log is only appended to, and only on failure: the lines it
\* had at the start stay in place, this run's lines follow them, one per
\* write, written only by iterations in which a call raised, in inventory
\* order; the file exists only if it existed before or a line was written, so
\* a run without failures leaves the log exactly as it was.
C15_LogAppendOnlyAndLazy ==
    /\ Len(log.lines) = Len(initial.log.lines) + Len(logOwner)
    /\ \A j \in DOMAIN initial.log.lines : log.lines[j] = initial.log.lines[j]
    /\ log.exists <=> (initial.log.exists \/ logOwner # <<>>)
    /\ \A j \in DOMAIN logOwner : logOwner[j] \in FailedIterations
    /\ \A i, j \in DOMAIN logOwner : i < j => logOwner[i] < logOwner[j]
    /\ (\A p \in DOMAIN calls : ~Failed(calls[p])) => log = initial.log

\* C15 witness: the log held a line of an earlier run and both devices of this
\* run failed.
C15_Witness ==
    /\ Returned /\ initial.log.lines = <<OldLine>>
    /\ logOwner = <<1, 2>>
    /\ Len(log.lines) = 3

\* a jump leg set up by a connect_ssh that returned, with no except clause run since
JumpLegInUse ==
    \E r \in DOMAIN calls :
        /\ JumpEstablished(calls[r])
        /\ \A t \in (r + 1)..Len(calls) : ~HandlerDisconnect(calls[t])
FinalDisconnectDone == \E p \in DOMAIN calls : calls[p].op = "disconnect" /\ calls[p].dev = 0

\* C16: in jump mode, at every loop-iteration boundary and at the final
\* teardown check, jump_connected is true exactly when the Session's jump-host
\* leg is up; the flag is true exactly when a connect_ssh returned and no
\* except clause ran since; the final teardown disconnects if and only if the
\* flag is set, and no jump leg is open at return.
C16_FlagMatchesJumpLeg ==
    JumpMode =>
      /\ pc \in {"for", "final"} => (jump_connected <=> session.jump)
      /\ jump_connected <=> JumpLegInUse
      /\ Returned => (FinalDisconnectDone <=> jump_connected)
      /\ Returned => ~session.jump
      /\ FinalDisconnectDone => Returned

\* C16 witness: the final teardown check with the jump leg up, re-established
\* after the first device failed over an earlier jump leg.
C16_Witness ==
    /\ JumpMode /\ pc = "final" /\ jump_connected /\ session.jump
    /\ \E p \in CallsOf(1) : calls[p].op \in HopOps /\ Failed(calls[p])
    /\ \E p \in CallsOf(2) : JumpEstablished(calls[p])

JumpOnlyOps == {"connect_ssh", "ssh_via_jump", "telnet_via_jump", "disconnect_via_jump"}

\* C17: with jump mode disabled the jump host is never touched: connect_ssh,
\* ssh_via_jump, telnet_via_jump and disconnect_via_jump are never called,
\* jump_connected stays false, the run never enters the jump-box section or a
\* jump try block, and the final teardown does not disconnect.
C17_DirectModeNeverTouchesJump ==
    ~JumpMode =>
      /\ \A p \in DOMAIN calls : calls[p].op \notin JumpOnlyOps
      /\ ~jump_connected
      /\ ~FinalDisconnectDone
      /\ pc \notin {"read_jump", "prompt_host", "prompt_user", "prompt_password",
                    "prompt_ending", "try_jump", "hop", "disconnect_via_jump", "except_jump"}
      /\ branch \in {"none", "direct"}

\* C17 witness: a finished direct-mode run over two devices, one whose task
\* failed and one that succeeded.
C17_Witness ==
    /\ Returned /\ ~JumpMode /\ NumDevices = 2
    /\ \E p \in CallsOf(1) : calls[p].op = "per_device_work" /\ Failed(calls[p])
    /\ TaskCompleted(2)
    /\ IsSshProtocol(device_list.rows[1].protocol)

====
